---- MODULE Spec2Model ----
(***************************************************************************)
(* Model of the CalvinCode deployment API (src/kserve-api/main.py): the    *)
(* deploy_app and delete_app handlers, the helpers they call, and the part *)
(* of the cluster control plane (Knative Services, DomainMappings) and of  *)
(* the CDN they act on.  Every external call of a handler is one step.     *)
(***************************************************************************)
EXTENDS Naturals, Sequences, FiniteSets, TLC

VARIABLES
    svc,        \* cluster: (namespace, name) -> Knative Service document or NoDoc
    dm,         \* cluster: (namespace, hostname) -> target service name or NoMapping
    pc,         \* per worker: position inside the handler it is running
    req,        \* per worker: the request being handled
    existing,   \* per worker: the local `existing` of the handler
    mexisting,  \* per worker: the local `existing` of create_or_update_domain_mapping
    action,     \* per worker: the local `action` of deploy_app
    calls,      \* per worker: external calls issued so far for this request
    failed,     \* per worker: best-effort steps of this request that failed
    outcome,    \* per worker: the response (or HTTPException) of the handler
    prev,       \* the last deploy or delete that wrote, with the workload document it left
    started,    \* number of requests received so far
    lastWriter, \* cluster history: per Service, the write applied last (who, which document)
    pod,        \* per worker: the local `latest_pod` of get_logs
    build,      \* inputs and result of one call of create_knative_service_spec
    cpc,        \* autoscaler corrector: "off", "polling", "patched" or "exhausted"
    attempts,   \* autoscaler corrector: polling attempts made
    revision,   \* platform: the revision name in the workload's status, once derived
    childMin    \* platform: the minimum-replica annotation of the derived child

\* what deploy_app and delete_app never touch
aux == <<pod, build, cpc, attempts, revision, childMin>>

\* what the handlers of main.py work on
core == <<svc, dm, pc, req, existing, mexisting, action, calls, failed, outcome, prev, started,
          lastWriter>>

vars == <<svc, dm, pc, req, existing, mexisting, action, calls, failed, outcome, prev, started,
          lastWriter, aux>>

----------------------------------------------------------------------------
(* Inputs and configuration *)

Procs == {"w1", "w2"}

\* Bound of the model: requests received in one run
MaxRequests == 3

DOMAIN_NAME == "calvinruntime.net"
DEFAULT_NAMESPACE == "default"
KNATIVE_GROUP == "serving.knative.dev"
KNATIVE_VERSION == "v1"
DOMAIN_MAPPING_VERSION == "v1beta1"

Namespaces == {DEFAULT_NAMESPACE}
Names == {"demo", "shop"}
\* envs: a dict, as the sequence of its (key, value) items in insertion order
\* The (image, envs) pairs requests are drawn from
Builds == { [image |-> "registry.example/demo:v1", envs |-> << <<"FOO", "bar">> >>],
            [image |-> "registry.example/demo:v2", envs |-> << >>] }
\* custom_domain: "" stands for both None and the empty string (both falsy)
NoDomain == ""
CustomDomains == {NoDomain, "shop.example.com", "demo.calvinruntime.net"}

DeploymentRequest ==
    { [op |-> "deploy", name |-> n, image |-> b.image, envs |-> b.envs,
       namespace |-> ns, custom_domain |-> d] :
      n \in Names, b \in Builds, ns \in Namespaces, d \in CustomDomains }
DeleteRequest ==
    [op : {"delete"}, name : Names, namespace : Namespaces]
NoReq == [op |-> "none"]

\* tail_lines: int = 100
DEFAULT_TAIL_LINES == 100
LogsRequest ==
    [op : {"logs"}, name : Names, namespace : Namespaces, tail_lines : {DEFAULT_TAIL_LINES}]

\* Pods the cluster can list for a service: creation timestamp and phase
PodNames == {"pod-a", "pod-b"}
Timestamps == {1, 2}
Phases == {"Running", "Succeeded", "Pending"}
Pods == [name : PodNames, created : Timestamps, phase : Phases]
\* pods.items: listings of at most one pod of each name
PodItems ==
    {<< >>} \cup {<<a>> : a \in Pods}
            \cup {<<a, b>> : a \in {x \in Pods : x.name = "pod-a"},
                             b \in {x \in Pods : x.name = "pod-b"}}

\* What an external call can do besides what the cluster state dictates.
ApiErrorCodes == {403, 503}
ApiFaults == [kind : {"api"}, status : ApiErrorCodes] \cup {[kind |-> "exc"]}
Ok == [kind |-> "ok"]
PurgeResults == {"200", "non200", "exception"}
WarmUpResults == {"response", "timeout", "exception"}

----------------------------------------------------------------------------
(* Pure helpers *)

Subdomain(name) == name \o "." \o DOMAIN_NAME
CleanUrl(name) == "https://" \o Subdomain(name)

Hosts == (CustomDomains \ {NoDomain}) \cup {Subdomain(n) : n \in Names}

\* (mutation) the user entries come out in reverse order
EnvList_Reversed(envs) ==
    [i \in 1..Len(envs) |-> [name |-> envs[Len(envs) + 1 - i][1],
                             value |-> envs[Len(envs) + 1 - i][2]]]

EnvList(envs) == [i \in 1..Len(envs) |-> [name |-> envs[i][1], value |-> envs[i][2]]]

create_knative_service_spec(name, image, envs) ==
    [ apiVersion  |-> KNATIVE_GROUP \o "/" \o KNATIVE_VERSION,
      kind        |-> "Service",
      name        |-> name,
      labels      |-> [k \in {"app", "managed-by"} |->
                          IF k = "app" THEN name ELSE "calvincode"],
      annotations |-> [k \in {"autoscaling.knative.dev/min-scale",
                              "autoscaling.knative.dev/max-scale",
                              "autoscaling.knative.dev/target"} |->
                          CASE k = "autoscaling.knative.dev/min-scale" -> "0"
                            [] k = "autoscaling.knative.dev/max-scale" -> "10"
                            [] OTHER -> "100"],
      image       |-> image,
      env         |-> Append(EnvList(envs),
                             [name |-> "SERVICE_URL", value |-> CleanUrl(name)]),
      ports       |-> << [containerPort |-> 8080, protocol |-> "TCP"] >>,
      resources   |-> [requests |-> [cpu |-> "100m", memory |-> "128Mi"],
                       limits   |-> [cpu |-> "1", memory |-> "512Mi"]] ]

create_domain_mapping_spec(domain_name, service_name, namespace) ==
    [ apiVersion |-> KNATIVE_GROUP \o "/" \o DOMAIN_MAPPING_VERSION,
      kind       |-> "DomainMapping",
      name       |-> domain_name,
      namespace  |-> namespace,
      ref        |-> service_name ]

NoDoc == [absent |-> TRUE]
Unset == [unset |-> TRUE]
NoMapping == ""
NotLookedUp == "?"
NoOutcome == [status |-> "none"]
NoPod == [absent |-> TRUE]
NoBuild == [absent |-> TRUE]
NoRevision == ""
\* no create/patch applied to the Service, or a delete applied since
NoWrite == [by |-> "none", want |-> NoDoc]
NoPrev == [req |-> NoReq, outcome |-> NoOutcome, doc |-> NoDoc]

Key(r) == <<r.namespace, r.name>>

\* JSON merge patch (what patch_namespaced_custom_object sends for a dict body):
\* maps are merged key by key, scalars and lists are replaced.
MergeMap(old, new) ==
    [k \in (DOMAIN old) \cup (DOMAIN new) |-> IF k \in DOMAIN new THEN new[k] ELSE old[k]]

\* (mutation) the patch merges the container's env list instead of replacing it
MergePatch_AppendsEnv(old, new) ==
    [ apiVersion  |-> new.apiVersion,
      kind        |-> new.kind,
      name        |-> new.name,
      labels      |-> MergeMap(old.labels, new.labels),
      annotations |-> MergeMap(old.annotations, new.annotations),
      image       |-> new.image,
      env         |-> old.env \o new.env,
      ports       |-> new.ports,
      resources   |-> new.resources ]

\* (mutation) the patch leaves the document as it was
MergePatch_OldWins(old, new) == old

\* (mutation) the patch writes the image and leaves the rest for later
MergePatch_ImageOnly(old, new) == [old EXCEPT !.image = new.image]

MergePatch(old, new) ==
    [ apiVersion  |-> new.apiVersion,
      kind        |-> new.kind,
      name        |-> new.name,
      labels      |-> MergeMap(old.labels, new.labels),
      annotations |-> MergeMap(old.annotations, new.annotations),
      image       |-> new.image,
      env         |-> new.env,
      ports       |-> new.ports,
      resources   |-> new.resources ]

Call(op, target) == [op |-> op, target |-> target]

DeploymentResponse(name, namespace, act, url) ==
    [status |-> "success", code |-> 200, name |-> name, namespace |-> namespace,
     action |-> act, url |-> url]

\* cause: the exception the handler turned into this HTTPException
HTTPException(code, cause) == [status |-> "failure", code |-> code, cause |-> cause]
NotFound == [kind |-> "none"]

\* (mutation) every error is answered as a 500, the control plane's status is lost
DeployError_Always500(f) == HTTPException(500, f)

\* except ApiException -> e.status ; except Exception -> 500
DeployError(f) == HTTPException(IF f.kind = "api" THEN f.status ELSE 500, f)

----------------------------------------------------------------------------
Init ==
    /\ svc = [k \in Namespaces \X Names |-> NoDoc]
    /\ dm = [k \in Namespaces \X Hosts |-> NoMapping]
    /\ pc = [p \in Procs |-> "idle"]
    /\ req = [p \in Procs |-> NoReq]
    /\ existing = [p \in Procs |-> Unset]
    /\ mexisting = [p \in Procs |-> NotLookedUp]
    /\ action = [p \in Procs |-> ""]
    /\ calls = [p \in Procs |-> << >>]
    /\ failed = [p \in Procs |-> {}]
    /\ outcome = [p \in Procs |-> NoOutcome]
    /\ prev = NoPrev
    /\ started = 0
    /\ lastWriter = [k \in Namespaces \X Names |-> NoWrite]
    /\ pod = [p \in Procs |-> NoPod]
    /\ build = NoBuild
    /\ cpc = "off"
    /\ attempts = 0
    /\ revision = NoRevision
    /\ childMin = ""

AllIdle == \A q \in Procs : pc[q] = "idle"

\* The server hands a request to a free worker; which one makes no difference.
FreeWorker == CHOOSE q \in Procs : pc[q] = "idle"

Begin(p, r, at) ==
    /\ pc[p] = "idle"
    /\ p = FreeWorker
    /\ started < MaxRequests
    /\ started' = started + 1
    /\ pc' = [pc EXCEPT ![p] = at]
    /\ req' = [req EXCEPT ![p] = r]
    /\ existing' = [existing EXCEPT ![p] = Unset]
    /\ mexisting' = [mexisting EXCEPT ![p] = NotLookedUp]
    /\ action' = [action EXCEPT ![p] = ""]
    /\ calls' = [calls EXCEPT ![p] = << >>]
    /\ failed' = [failed EXCEPT ![p] = {}]
    /\ outcome' = [outcome EXCEPT ![p] = NoOutcome]
    /\ UNCHANGED <<svc, dm, prev, aux, lastWriter>>

\* The handler ends: its response or HTTPException is what the caller gets.
Finish(p, out) ==
    /\ pc' = [pc EXCEPT ![p] = "done"]
    /\ outcome' = [outcome EXCEPT ![p] = out]

Issue(p, op, target) == calls' = [calls EXCEPT ![p] = Append(@, Call(op, target))]

----------------------------------------------------------------------------
(* deploy_app *)

StartDeploy(p, r) == Begin(p, r, "d_get")

\* existing = get_knative_service(name, namespace)
DeployGet(p) ==
    /\ pc[p] = "d_get"
    /\ Issue(p, "get_service", req[p].name)
    /\ \E res \in {Ok} \cup ApiFaults :
         IF res = Ok
         THEN /\ existing' = [existing EXCEPT ![p] = svc[Key(req[p])]]
              /\ pc' = [pc EXCEPT ![p] = "d_upsert"]
              /\ UNCHANGED outcome
         ELSE /\ Finish(p, DeployError(res))
              /\ UNCHANGED existing
    /\ UNCHANGED <<svc, dm, req, action, failed, prev, started, mexisting, aux, lastWriter>>

\* (mutation) the action is not told apart
ActionTaken_AlwaysCreated(creating) == "created"

\* action = "created" after the create, "updated" after the patch
ActionTaken(creating) == IF creating THEN "created" ELSE "updated"

AfterUpsert(r) == IF r.custom_domain # NoDomain THEN "d_map_get" ELSE "d_purge_sub"

\* (mutation) a patch of a Service that is gone creates it again
DeployUpsert_PatchRecreates(p) ==
    /\ pc[p] = "d_upsert"
    /\ LET r == req[p]
           k == Key(r)
           desired == create_knative_service_spec(r.name, r.image, r.envs)
           creating == existing[p] = NoDoc
           natural == IF creating /\ svc[k] # NoDoc THEN [kind |-> "api", status |-> 409] ELSE Ok
       IN /\ Issue(p, IF creating THEN "create_service" ELSE "patch_service", r.name)
          /\ \E res \in {natural} \cup ApiFaults :
               IF res = Ok
               THEN /\ svc' = [svc EXCEPT ![k] =
                                  IF svc[k] = NoDoc THEN desired ELSE MergePatch(svc[k], desired)]
                    /\ lastWriter' = [lastWriter EXCEPT ![k] = [by |-> p, want |-> desired]]
                    /\ action' = [action EXCEPT ![p] = ActionTaken(creating)]
                    /\ pc' = [pc EXCEPT ![p] = AfterUpsert(r)]
                    /\ UNCHANGED outcome
               ELSE /\ Finish(p, DeployError(res))
                    /\ UNCHANGED <<svc, action, lastWriter>>
    /\ UNCHANGED <<dm, req, existing, failed, prev, started, mexisting, aux>>

\* create_namespaced_custom_object / patch_namespaced_custom_object of the Service
DeployUpsert(p) ==
    /\ pc[p] = "d_upsert"
    /\ LET r == req[p]
           k == Key(r)
           desired == create_knative_service_spec(r.name, r.image, r.envs)
           creating == existing[p] = NoDoc
           \* what the control plane answers from its own state
           natural == IF creating
                      THEN IF svc[k] = NoDoc THEN Ok ELSE [kind |-> "api", status |-> 409]
                      ELSE IF svc[k] # NoDoc THEN Ok ELSE [kind |-> "api", status |-> 404]
       IN /\ Issue(p, IF creating THEN "create_service" ELSE "patch_service", r.name)
          /\ \E res \in {natural} \cup ApiFaults :
               IF res = Ok
               THEN /\ svc' = [svc EXCEPT ![k] =
                                  IF creating THEN desired ELSE MergePatch(svc[k], desired)]
                    /\ lastWriter' = [lastWriter EXCEPT ![k] = [by |-> p, want |-> desired]]
                    /\ action' = [action EXCEPT ![p] = ActionTaken(creating)]
                    /\ pc' = [pc EXCEPT ![p] = AfterUpsert(r)]
                    /\ UNCHANGED outcome
               ELSE /\ Finish(p, DeployError(res))
                    /\ UNCHANGED <<svc, action, lastWriter>>
    /\ UNCHANGED <<dm, req, existing, failed, prev, started, mexisting, aux>>

Fail(p, step) == failed' = [failed EXCEPT ![p] = @ \cup {step}]

\* (mutation) a mapping that targets another service is created again
DeployMapGet_Repairs(p) ==
    /\ pc[p] = "d_map_get"
    /\ LET h == req[p].custom_domain
       IN /\ Issue(p, "get_mapping", h)
          /\ \E res \in {Ok} \cup ApiFaults :
               IF res = Ok
               THEN /\ mexisting' = [mexisting EXCEPT ![p] = dm[<<req[p].namespace, h>>]]
                    /\ pc' = [pc EXCEPT ![p] =
                                IF dm[<<req[p].namespace, h>>] # req[p].name
                                THEN "d_map_create" ELSE "d_purge_custom"]
                    /\ UNCHANGED failed
               ELSE /\ pc' = [pc EXCEPT ![p] = "d_purge_custom"]
                    /\ Fail(p, "mapping")
                    /\ UNCHANGED mexisting
    /\ UNCHANGED <<svc, dm, req, existing, action, outcome, prev, started, aux, lastWriter>>

\* create_or_update_domain_mapping: existing = get_domain_mapping(domain_name, namespace)
DeployMapGet(p) ==
    /\ pc[p] = "d_map_get"
    /\ LET h == req[p].custom_domain
       IN /\ Issue(p, "get_mapping", h)
          /\ \E res \in {Ok} \cup ApiFaults :
               IF res = Ok
               THEN /\ mexisting' = [mexisting EXCEPT ![p] = dm[<<req[p].namespace, h>>]]
                    /\ pc' = [pc EXCEPT ![p] =
                                IF dm[<<req[p].namespace, h>>] = NoMapping
                                THEN "d_map_create" ELSE "d_purge_custom"]
                    /\ UNCHANGED failed
               ELSE \* logged by the except clauses of the helper, not raised
                    /\ pc' = [pc EXCEPT ![p] = "d_purge_custom"]
                    /\ Fail(p, "mapping")
                    /\ UNCHANGED mexisting
    /\ UNCHANGED <<svc, dm, req, existing, action, outcome, prev, started, aux, lastWriter>>

\* (mutation) the create replaces a mapping that is already there
DeployMapCreate_Replaces(p) ==
    /\ pc[p] = "d_map_create"
    /\ LET r == req[p]
           mapping_spec == create_domain_mapping_spec(r.custom_domain, r.name, r.namespace)
       IN /\ Issue(p, "create_mapping", <<mapping_spec.name, mapping_spec.ref>>)
          /\ \E res \in {Ok} \cup ApiFaults :
               IF res = Ok
               THEN /\ dm' = [dm EXCEPT ![<<mapping_spec.namespace, mapping_spec.name>>] =
                                 mapping_spec.ref]
                    /\ UNCHANGED failed
               ELSE /\ Fail(p, "mapping")
                    /\ UNCHANGED dm
    /\ pc' = [pc EXCEPT ![p] = "d_purge_custom"]
    /\ UNCHANGED <<svc, req, existing, action, outcome, prev, started, mexisting, aux, lastWriter>>

\* create_or_update_domain_mapping: create_namespaced_custom_object(body=mapping_spec)
DeployMapCreate(p) ==
    /\ pc[p] = "d_map_create"
    /\ LET r == req[p]
           k == <<r.namespace, r.custom_domain>>
           mapping_spec == create_domain_mapping_spec(r.custom_domain, r.name, r.namespace)
           natural == IF dm[k] = NoMapping THEN Ok ELSE [kind |-> "api", status |-> 409]
       IN /\ Issue(p, "create_mapping", <<mapping_spec.name, mapping_spec.ref>>)
          /\ \E res \in {natural} \cup ApiFaults :
               IF res = Ok
               THEN /\ dm' = [dm EXCEPT ![<<mapping_spec.namespace, mapping_spec.name>>] =
                                 mapping_spec.ref]
                    /\ UNCHANGED failed
               ELSE /\ Fail(p, "mapping")
                    /\ UNCHANGED dm
    /\ pc' = [pc EXCEPT ![p] = "d_purge_custom"]
    /\ UNCHANGED <<svc, req, existing, action, outcome, prev, started, mexisting, aux, lastWriter>>

\* purge_cloudflare_cache(domain): one POST with hosts = [domain]; nothing is raised
purge_cloudflare_cache(p, domain, step) ==
    /\ Issue(p, "purge", domain)
    /\ \E res \in PurgeResults :
         IF res = "200" THEN UNCHANGED failed ELSE Fail(p, step)

\* (mutation) the custom domain's purge is keyed by the subdomain
DeployPurgeCustom_WrongHost(p) ==
    /\ pc[p] = "d_purge_custom"
    /\ purge_cloudflare_cache(p, Subdomain(req[p].name), "purge_custom")
    /\ pc' = [pc EXCEPT ![p] = "d_purge_sub"]
    /\ UNCHANGED <<svc, dm, req, existing, action, outcome, prev, started, mexisting, aux, lastWriter>>

DeployPurgeCustom(p) ==
    /\ pc[p] = "d_purge_custom"
    /\ purge_cloudflare_cache(p, req[p].custom_domain, "purge_custom")
    /\ pc' = [pc EXCEPT ![p] = "d_purge_sub"]
    /\ UNCHANGED <<svc, dm, req, existing, action, outcome, prev, started, mexisting, aux, lastWriter>>

\* (mutation) a purge that did not answer 200 fails the request
DeployPurgeSub_Raising(p) ==
    /\ pc[p] = "d_purge_sub"
    /\ Issue(p, "purge", Subdomain(req[p].name))
    /\ \E res \in PurgeResults :
         IF res = "200"
         THEN /\ pc' = [pc EXCEPT ![p] = "d_sleep"]
              /\ UNCHANGED <<failed, outcome>>
         ELSE /\ Fail(p, "purge_sub")
              /\ Finish(p, HTTPException(500, [kind |-> "exc"]))
    /\ UNCHANGED <<svc, dm, req, existing, action, prev, started, mexisting, aux, lastWriter>>

DeployPurgeSub(p) ==
    /\ pc[p] = "d_purge_sub"
    /\ purge_cloudflare_cache(p, Subdomain(req[p].name), "purge_sub")
    /\ pc' = [pc EXCEPT ![p] = "d_sleep"]
    /\ UNCHANGED <<svc, dm, req, existing, action, outcome, prev, started, mexisting, aux, lastWriter>>

\* (mutation) the warm-up is sent without waiting for the purge to propagate
DeploySleep_Skipped(p) ==
    /\ pc[p] = "d_sleep"
    /\ pc' = [pc EXCEPT ![p] = "d_warm_up"]
    /\ UNCHANGED <<svc, dm, req, existing, action, calls, failed, outcome, prev, started,
                   mexisting, aux, lastWriter>>

\* time.sleep(3)
DeploySleep(p) ==
    /\ pc[p] = "d_sleep"
    /\ Issue(p, "sleep", "")
    /\ pc' = [pc EXCEPT ![p] = "d_warm_up"]
    /\ UNCHANGED <<svc, dm, req, existing, action, failed, outcome, prev, started, mexisting, aux, lastWriter>>

\* warm_up_service(clean_url): one GET; a timeout or any other exception is logged
DeployWarmUp(p) ==
    /\ pc[p] = "d_warm_up"
    /\ Issue(p, "warm_up", CleanUrl(req[p].name))
    /\ \E res \in WarmUpResults :
         IF res = "response" THEN UNCHANGED failed ELSE Fail(p, "warm_up")
    /\ pc' = [pc EXCEPT ![p] = "d_return"]
    /\ UNCHANGED <<svc, dm, req, existing, action, outcome, prev, started, mexisting, aux, lastWriter>>

\* (mutation) the action of the response is worked out again at the end
DeployReturn_Recomputes(p) ==
    /\ pc[p] = "d_return"
    /\ Finish(p, DeploymentResponse(req[p].name, req[p].namespace,
                                    ActionTaken(svc[Key(req[p])] = NoDoc),
                                    CleanUrl(req[p].name)))
    /\ UNCHANGED <<svc, dm, req, existing, action, calls, failed, prev, started, mexisting, aux, lastWriter>>

\* return DeploymentResponse(...)
DeployReturn(p) ==
    /\ pc[p] = "d_return"
    /\ Finish(p, DeploymentResponse(req[p].name, req[p].namespace, action[p],
                                    CleanUrl(req[p].name)))
    /\ UNCHANGED <<svc, dm, req, existing, action, calls, failed, prev, started, mexisting, aux, lastWriter>>

----------------------------------------------------------------------------
(* delete_app *)

StartDelete(p, r) == Begin(p, r, "x_get")

\* (mutation) the control plane's status is lost: every error is a 500
DeleteError_Always500(f) == HTTPException(500, f)

\* an exception that is no ApiException leaves delete_app unhandled: a 500
DeleteError(f) == HTTPException(IF f.kind = "api" THEN f.status ELSE 500, f)

\* (mutation) the delete is not gated on the existence check
DeleteGet_Ungated(p) ==
    /\ pc[p] = "x_get"
    /\ Issue(p, "get_service", req[p].name)
    /\ \E res \in {Ok} \cup ApiFaults :
         IF res = Ok
         THEN /\ existing' = [existing EXCEPT ![p] = svc[Key(req[p])]]
              /\ pc' = [pc EXCEPT ![p] = "x_delete"]
              /\ UNCHANGED outcome
         ELSE /\ Finish(p, DeleteError(res))
              /\ UNCHANGED existing
    /\ UNCHANGED <<svc, dm, req, action, failed, prev, started, mexisting, aux, lastWriter>>

\* existing = get_knative_service(name, namespace); 404 if None
DeleteGet(p) ==
    /\ pc[p] = "x_get"
    /\ Issue(p, "get_service", req[p].name)
    /\ \E res \in {Ok} \cup ApiFaults :
         IF res = Ok
         THEN /\ existing' = [existing EXCEPT ![p] = svc[Key(req[p])]]
              /\ IF svc[Key(req[p])] = NoDoc
                 THEN Finish(p, HTTPException(404, NotFound))
                 ELSE /\ pc' = [pc EXCEPT ![p] = "x_delete"]
                      /\ UNCHANGED outcome
         ELSE /\ Finish(p, DeleteError(res))
              /\ UNCHANGED existing
    /\ UNCHANGED <<svc, dm, req, action, failed, prev, started, mexisting, aux, lastWriter>>

\* (mutation) the delete also removes every DomainMapping that targets the service
DeleteService_DropsMappings(p) ==
    /\ pc[p] = "x_delete"
    /\ LET k == Key(req[p])
           natural == IF svc[k] # NoDoc THEN Ok ELSE [kind |-> "api", status |-> 404]
       IN /\ Issue(p, "delete_service", req[p].name)
          /\ \E res \in {natural} \cup ApiFaults :
               IF res = Ok
               THEN /\ svc' = [svc EXCEPT ![k] = NoDoc]
                    /\ lastWriter' = [lastWriter EXCEPT ![k] = NoWrite]
                    /\ dm' = [h \in DOMAIN dm |->
                                 IF h[1] = req[p].namespace /\ dm[h] = req[p].name
                                 THEN NoMapping ELSE dm[h]]
                    /\ Finish(p, [status |-> "deleted", code |-> 200,
                                  name |-> req[p].name, namespace |-> req[p].namespace])
               ELSE /\ Finish(p, DeleteError(res))
                    /\ UNCHANGED <<svc, dm, lastWriter>>
    /\ UNCHANGED <<req, existing, action, failed, prev, started, mexisting, aux>>

\* delete_namespaced_custom_object of the Service, then the acknowledgement
DeleteService(p) ==
    /\ pc[p] = "x_delete"
    /\ LET k == Key(req[p])
           natural == IF svc[k] # NoDoc THEN Ok ELSE [kind |-> "api", status |-> 404]
       IN /\ Issue(p, "delete_service", req[p].name)
          /\ \E res \in {natural} \cup ApiFaults :
               IF res = Ok
               THEN /\ svc' = [svc EXCEPT ![k] = NoDoc]
                    /\ lastWriter' = [lastWriter EXCEPT ![k] = NoWrite]
                    /\ Finish(p, [status |-> "deleted", code |-> 200,
                                  name |-> req[p].name, namespace |-> req[p].namespace])
               ELSE /\ Finish(p, DeleteError(res))
                    /\ UNCHANGED <<svc, lastWriter>>
    /\ UNCHANGED <<dm, req, existing, action, failed, prev, started, mexisting, aux>>

----------------------------------------------------------------------------
(* get_logs *)

StartLogs(p, r) == Begin(p, r, "l_get")

\* except ApiException -> e.status ; except Exception -> 500: the second
\* clause also catches the HTTPException the handler raises itself
GetLogsError(f) == HTTPException(IF f.kind = "api" THEN f.status ELSE 500, f)

\* the HTTPException(status_code=404) raised inside the try block
RaisedNotFound == [kind |-> "http", status |-> 404]

\* raise HTTPException(404) inside the try, as the caller gets it
LogsNotFound == GetLogsError(RaisedNotFound)

\* existing = get_knative_service(name, namespace); raise 404 if None
LogsGet(p) ==
    /\ pc[p] = "l_get"
    /\ Issue(p, "get_service", req[p].name)
    /\ \E res \in {Ok} \cup ApiFaults :
         IF res = Ok
         THEN /\ existing' = [existing EXCEPT ![p] = svc[Key(req[p])]]
              /\ IF svc[Key(req[p])] = NoDoc
                 THEN Finish(p, LogsNotFound)
                 ELSE /\ pc' = [pc EXCEPT ![p] = "l_list"]
                      /\ UNCHANGED outcome
         ELSE /\ Finish(p, GetLogsError(res))
              /\ UNCHANGED existing
    /\ UNCHANGED <<svc, dm, req, action, failed, prev, started, mexisting, aux, lastWriter>>

\* max(pods.items, key=creation_timestamp): the first of the latest ones
LatestPod(items) ==
    items[CHOOSE i \in 1..Len(items) :
            \A j \in 1..Len(items) :
               /\ items[j].created <= items[i].created
               /\ items[j].created = items[i].created => i <= j]

NoPodsResult(r) ==
    [status |-> "logs", code |-> 200, name |-> r.name, namespace |-> r.namespace, logs |-> "",
     message |-> "No pods found for this app. The app may not be running yet or scaled to zero."]

NotReadyResult(r, latest) ==
    [status |-> "logs", code |-> 200, name |-> r.name, namespace |-> r.namespace,
     pod_name |-> latest.name, pod_status |-> latest.phase, logs |-> "",
     message |-> "Pod is in " \o latest.phase \o " state and logs are not available yet."]

\* the text read_namespaced_pod_log returns for a pod
LogText(latest) == "log of " \o latest.name

LogsResult(r, latest) ==
    [status |-> "logs", code |-> 200, name |-> r.name, namespace |-> r.namespace,
     pod_name |-> latest.name, pod_status |-> latest.phase, tail_lines |-> r.tail_lines,
     logs |-> LogText(latest)]

\* (mutation) an empty listing is answered as an error
LogsListPods_EmptyIsError(p) ==
    /\ pc[p] = "l_list"
    /\ Issue(p, "list_pods", req[p].name)
    /\ \E res \in {Ok} \cup ApiFaults :
         IF res = Ok
         THEN \E items \in PodItems :
                /\ pod' = [pod EXCEPT ![p] = [items |-> items]]
                /\ IF items = << >>
                   THEN Finish(p, LogsNotFound)
                   ELSE /\ pc' = [pc EXCEPT ![p] = "l_read"]
                        /\ UNCHANGED outcome
         ELSE /\ Finish(p, GetLogsError(res))
              /\ UNCHANGED pod
    /\ UNCHANGED <<svc, dm, req, existing, action, failed, prev, started, mexisting, lastWriter,
                   build, cpc, attempts, revision, childMin>>

\* pods = core_v1.list_namespaced_pod(...); if not pods.items: return
LogsListPods(p) ==
    /\ pc[p] = "l_list"
    /\ Issue(p, "list_pods", req[p].name)
    /\ \E res \in {Ok} \cup ApiFaults :
         IF res = Ok
         THEN \E items \in PodItems :
                /\ pod' = [pod EXCEPT ![p] = [items |-> items]]
                /\ IF items = << >>
                   THEN Finish(p, NoPodsResult(req[p]))
                   ELSE /\ pc' = [pc EXCEPT ![p] = "l_read"]
                        /\ UNCHANGED outcome
         ELSE /\ Finish(p, GetLogsError(res))
              /\ UNCHANGED pod
    /\ UNCHANGED <<svc, dm, req, existing, action, failed, prev, started, mexisting, lastWriter,
                   build, cpc, attempts, revision, childMin>>

Readable(latest) == latest.phase \in {"Running", "Succeeded"}

\* logs = core_v1.read_namespaced_pod_log(...) in either branch, and the return
LogsRead(p) ==
    /\ pc[p] = "l_read"
    /\ LET latest == LatestPod(pod[p].items)
       IN /\ Issue(p, "read_pod_log", latest.name)
          /\ \E res \in {Ok} \cup ApiFaults :
               IF res = Ok
               THEN Finish(p, LogsResult(req[p], latest)) /\ UNCHANGED failed
               ELSE /\ Fail(p, "read_pod_log")
                    /\ IF ~Readable(latest) /\ res.kind = "api"
                       THEN Finish(p, NotReadyResult(req[p], latest))
                       ELSE Finish(p, GetLogsError(res))
    /\ UNCHANGED <<svc, dm, req, existing, action, prev, started, mexisting, aux, lastWriter>>

----------------------------------------------------------------------------
\* The response leaves the server; the worker is free for the next request.
Respond(p) ==
    /\ pc[p] = "done"
    \* a request answered with an error has written nothing (it failed at or
    \* before its first write), so the last writer stays the one recorded
    /\ prev' = IF outcome[p].status \in {"success", "deleted"}
               THEN [req |-> req[p], outcome |-> outcome[p], doc |-> svc[Key(req[p])]]
               ELSE prev
    /\ pc' = [pc EXCEPT ![p] = "idle"]
    /\ req' = [req EXCEPT ![p] = NoReq]
    /\ existing' = [existing EXCEPT ![p] = Unset]
    /\ mexisting' = [mexisting EXCEPT ![p] = NotLookedUp]
    /\ action' = [action EXCEPT ![p] = ""]
    /\ calls' = [calls EXCEPT ![p] = << >>]
    /\ failed' = [failed EXCEPT ![p] = {}]
    /\ outcome' = [outcome EXCEPT ![p] = NoOutcome]
    /\ pod' = [pod EXCEPT ![p] = NoPod]
    /\ UNCHANGED <<svc, dm, started, lastWriter, build, cpc, attempts, revision, childMin>>

\* One request at a time: a request starts when no other is being handled.
Next ==
    \E p \in Procs :
        \/ AllIdle /\ \E r \in DeploymentRequest : StartDeploy(p, r)
        \/ AllIdle /\ \E r \in DeleteRequest : StartDelete(p, r)
        \/ DeployGet(p)
        \/ DeployUpsert(p)
        \/ DeployMapGet(p)
        \/ DeployMapCreate(p)
        \/ DeployPurgeCustom(p)
        \/ DeployPurgeSub(p)
        \/ DeploySleep(p)
        \/ DeployWarmUp(p)
        \/ DeployReturn(p)
        \/ DeleteGet(p)
        \/ DeleteService(p)
        \/ Respond(p)

Spec == Init /\ [][Next]_vars

----------------------------------------------------------------------------
(* Autoscaler correction.  main.py has no such code: this part follows the   *)
(* design document (component AutoscalerCorrector, workflow step 3).         *)

\* attempt ceiling of the polling loop
MAX_ATTEMPTS == 30

\* Platform: the control plane has processed the workload and derived its
\* revision, whose minimum-replica annotation it sets to a non-zero default.
RevisionDerived ==
    /\ revision = NoRevision
    /\ \E k \in DOMAIN svc :
         /\ svc[k] # NoDoc
         /\ revision' = svc[k].name \o "-00001"
    /\ childMin' = "1"
    /\ UNCHANGED <<core, pod, build, cpc, attempts>>

\* The deploy starts the correction after the domain step and before the
\* first purge, as a detached task: the handler goes on at once.
AutoscalerLaunch(p) ==
    /\ pc[p] \in {"d_purge_custom", "d_purge_sub"}
    /\ cpc = "off"
    /\ cpc' = "polling"
    /\ attempts' = 0
    /\ UNCHANGED <<core, pod, build, revision, childMin>>

\* (mutation) the loop has no attempt ceiling
AutoscalerAttempt_NoCeiling ==
    /\ cpc = "polling"
    /\ attempts' = attempts + 1
    /\ \E res \in {Ok} \cup ApiFaults :
         IF res = Ok /\ revision # NoRevision
         THEN \E pres \in {Ok} \cup ApiFaults :
                IF pres = Ok
                THEN childMin' = "0" /\ cpc' = "patched"
                ELSE UNCHANGED <<childMin, cpc>>
         ELSE UNCHANGED <<childMin, cpc>>
    /\ UNCHANGED <<core, pod, build, revision>>

\* (mutation) the loop does not stop after a successful patch
AutoscalerAttempt_NoBreak ==
    /\ cpc \in {"polling", "patched"}
    /\ attempts < MAX_ATTEMPTS
    /\ attempts' = attempts + 1
    /\ \E res \in {Ok} \cup ApiFaults :
         IF res = Ok /\ revision # NoRevision
         THEN \E pres \in {Ok} \cup ApiFaults :
                IF pres = Ok
                THEN childMin' = "0" /\ cpc' = "patched"
                ELSE UNCHANGED <<childMin, cpc>>
         ELSE UNCHANGED <<childMin, cpc>>
    /\ UNCHANGED <<core, pod, build, revision>>

\* One polling attempt: read the workload's status; when it names the
\* revision, patch the revision's minimum-replica annotation to zero and stop;
\* an error of either call is logged and the loop goes on.
AutoscalerAttempt ==
    /\ cpc = "polling"
    /\ attempts < MAX_ATTEMPTS
    /\ attempts' = attempts + 1
    /\ \E res \in {Ok} \cup ApiFaults :
         IF res = Ok /\ revision # NoRevision
         THEN \E pres \in {Ok} \cup ApiFaults :
                IF pres = Ok
                THEN childMin' = "0" /\ cpc' = "patched"
                ELSE UNCHANGED <<childMin, cpc>>
         ELSE UNCHANGED <<childMin, cpc>>
    /\ UNCHANGED <<core, pod, build, revision>>

\* The ceiling is reached: a warning is logged, nothing is raised.
AutoscalerExhausted ==
    /\ cpc = "polling"
    /\ attempts = MAX_ATTEMPTS
    /\ cpc' = "exhausted"
    /\ UNCHANGED <<core, pod, build, attempts, revision, childMin>>

\* (mutation) the handler waits for the correction to end before it purges
PurgeStep_Awaiting(p) ==
    /\ cpc \in {"patched", "exhausted"}
    /\ DeployPurgeCustom(p) \/ DeployPurgeSub(p)

\* The purges come after the launch; they do not wait for the task.
PurgeStep(p) ==
    /\ cpc # "off"
    /\ DeployPurgeCustom(p) \/ DeployPurgeSub(p)

\* One deploy with the correction it launches, and the platform.
CorrNext ==
    \/ \E p \in Procs :
          \/ started = 0 /\ \E r \in DeploymentRequest : StartDeploy(p, r)
          \/ DeployGet(p)
          \/ DeployUpsert(p)
          \/ DeployMapGet(p)
          \/ DeployMapCreate(p)
          \/ AutoscalerLaunch(p)
          \/ PurgeStep(p)
          \/ DeploySleep(p)
          \/ DeployWarmUp(p)
          \/ DeployReturn(p)
    \/ RevisionDerived
    \/ AutoscalerAttempt
    \/ AutoscalerExhausted

CorrSpec == Init /\ [][CorrNext]_vars

----------------------------------------------------------------------------
\* get_logs, with the deploys (no custom domain) that make services exist
LogsNext ==
    \E p \in Procs :
        \/ AllIdle /\ \E r \in DeploymentRequest :
                        r.custom_domain = NoDomain /\ StartDeploy(p, r)
        \/ AllIdle /\ \E r \in LogsRequest : StartLogs(p, r)
        \/ DeployGet(p)
        \/ DeployUpsert(p)
        \/ DeployPurgeSub(p)
        \/ DeploySleep(p)
        \/ DeployWarmUp(p)
        \/ DeployReturn(p)
        \/ LogsGet(p)
        \/ LogsListPods(p)
        \/ LogsRead(p)
        \/ Respond(p)

LogsSpec == Init /\ [][LogsNext]_vars

----------------------------------------------------------------------------
\* Concurrent deploys: each worker takes a request as soon as it is free, and
\* their calls interleave freely.  A deploy served while the other worker is
\* idle is answered and leaves its Service in the cluster; once both workers
\* are busy the race is on, and the responses of the two are kept.
ConcNext ==
    \E p \in Procs :
        \/ \E r \in DeploymentRequest : r.custom_domain = NoDomain /\ StartDeploy(p, r)
        \/ DeployGet(p)
        \/ DeployUpsert(p)
        \/ DeployPurgeSub(p)
        \/ DeploySleep(p)
        \/ DeployWarmUp(p)
        \/ DeployReturn(p)
        \/ (\A q \in Procs \ {p} : pc[q] = "idle") /\ Respond(p)

ConcSpec == Init /\ [][ConcNext]_vars

----------------------------------------------------------------------------
\* the custom domain the concurrent deploys name
CONTESTED_DOMAIN == "shop.example.com"

\* Concurrent deploys with a custom domain: the workers' mapping lookups and
\* creates interleave freely; the responses are kept.
MapNext ==
    \E p \in Procs :
        \/ \E r \in DeploymentRequest : r.custom_domain = CONTESTED_DOMAIN /\ StartDeploy(p, r)
        \/ DeployGet(p)
        \/ DeployUpsert(p)
        \/ DeployMapGet(p)
        \/ DeployMapCreate(p)
        \/ DeployPurgeCustom(p)
        \/ DeployPurgeSub(p)
        \/ DeploySleep(p)
        \/ DeployWarmUp(p)
        \/ DeployReturn(p)

MapSpec == Init /\ [][MapNext]_vars

----------------------------------------------------------------------------
\* the name the concurrent requests are about
RACED_NAME == "demo"

\* Deploys (no custom domain) and deletes handled concurrently: a worker takes
\* a request as soon as it is free, and the workers' calls interleave freely.
RaceNext ==
    \E p \in Procs :
        \/ \E r \in DeploymentRequest :
              r.name = RACED_NAME /\ r.custom_domain = NoDomain /\ StartDeploy(p, r)
        \/ \E r \in DeleteRequest : r.name = RACED_NAME /\ StartDelete(p, r)
        \/ DeployGet(p)
        \/ DeployUpsert(p)
        \/ DeployPurgeSub(p)
        \/ DeploySleep(p)
        \/ DeployWarmUp(p)
        \/ DeployReturn(p)
        \/ DeleteGet(p)
        \/ DeleteService(p)
        \/ Respond(p)

RaceSpec == Init /\ [][RaceNext]_vars

----------------------------------------------------------------------------
\* Two deletes racing for a Service: deploys (no custom domain), one at a
\* time, leave the Service; then each worker takes one delete, their calls
\* interleave freely, and their responses are kept.
DelNext ==
    \E p \in Procs :
        \/ /\ AllIdle
           /\ \E r \in DeploymentRequest :
                r.name = RACED_NAME /\ r.custom_domain = NoDomain /\ StartDeploy(p, r)
        \/ /\ \A q \in Procs : req[q].op # "deploy"
           /\ \E r \in DeleteRequest : r.name = RACED_NAME /\ StartDelete(p, r)
        \/ DeployGet(p)
        \/ DeployUpsert(p)
        \/ DeployPurgeSub(p)
        \/ DeploySleep(p)
        \/ DeployWarmUp(p)
        \/ DeployReturn(p)
        \/ DeleteGet(p)
        \/ DeleteService(p)
        \/ req[p].op = "deploy" /\ Respond(p)

DelSpec == Init /\ [][DelNext]_vars

----------------------------------------------------------------------------
(* The cluster is shared: Services are also written by other clients of the  *)
(* control plane (kubectl, other deployers), between the requests served here *)

FOREIGN_LABEL == "team"

\* Another client labels an existing Service.
ForeignLabel(k) ==
    /\ AllIdle
    /\ svc[k] # NoDoc
    /\ FOREIGN_LABEL \notin DOMAIN svc[k].labels
    /\ svc' = [svc EXCEPT ![k].labels = (FOREIGN_LABEL :> "payments") @@ @]
    /\ UNCHANGED <<dm, pc, req, existing, mexisting, action, calls, failed, outcome, prev,
                   started, lastWriter, aux>>

\* Deploys (no custom domain), one at a time, on a shared cluster.
SharedNext ==
    \/ \E p \in Procs :
          \/ AllIdle /\ \E r \in DeploymentRequest :
                          r.custom_domain = NoDomain /\ StartDeploy(p, r)
          \/ DeployGet(p)
          \/ DeployUpsert(p)
          \/ DeployPurgeSub(p)
          \/ DeploySleep(p)
          \/ DeployWarmUp(p)
          \/ DeployReturn(p)
          \/ Respond(p)
    \/ \E k \in Namespaces \X Names : ForeignLabel(k)

SharedSpec == Init /\ [][SharedNext]_vars

----------------------------------------------------------------------------
(* create_knative_service_spec on its own, for every name and user environment *)

\* Bound of the model: entries of a user environment
MaxEnvLen == 2
EnvKeys == {"FOO", "PORT", "SERVICE_URL"}
EnvValues == {"bar", "https://elsewhere.example"}
\* a dict: (key, value) items in insertion order, no key twice
EnvDicts ==
    {e \in UNION {[1..n -> EnvKeys \X EnvValues] : n \in 0..MaxEnvLen} :
        \A i, j \in 1..Len(e) : e[i][1] = e[j][1] => i = j}

BuildInit ==
    /\ svc = [k \in Namespaces \X Names |-> NoDoc]
    /\ dm = [k \in Namespaces \X Hosts |-> NoMapping]
    /\ pc = [p \in Procs |-> "idle"]
    /\ req = [p \in Procs |-> NoReq]
    /\ existing = [p \in Procs |-> Unset]
    /\ mexisting = [p \in Procs |-> NotLookedUp]
    /\ action = [p \in Procs |-> ""]
    /\ calls = [p \in Procs |-> << >>]
    /\ failed = [p \in Procs |-> {}]
    /\ outcome = [p \in Procs |-> NoOutcome]
    /\ prev = NoPrev
    /\ started = 0
    /\ lastWriter = [k \in Namespaces \X Names |-> NoWrite]
    /\ pod = [p \in Procs |-> NoPod]
    /\ \E n \in Names, b \in Builds, e \in EnvDicts :
         build = [name |-> n, image |-> b.image, envs |-> e, result |-> NoDoc]
    /\ cpc = "off"
    /\ attempts = 0
    /\ revision = NoRevision
    /\ childMin = ""

\* one call of create_knative_service_spec(name, image, envs)
BuildWorkloadSpec ==
    /\ build.result = NoDoc
    /\ build' = [build EXCEPT
                    !.result = create_knative_service_spec(build.name, build.image, build.envs)]
    /\ UNCHANGED <<core, pod, cpc, attempts, revision, childMin>>

BuildNext == BuildWorkloadSpec

BuildSpec == BuildInit /\ [][BuildNext]_vars

----------------------------------------------------------------------------
(* Vocabulary of the properties *)

Done(p) == pc[p] = "done"
IsDeploy(p) == req[p].op = "deploy"
IsDelete(p) == req[p].op = "delete"
Ops(p) == {calls[p][i].op : i \in 1..Len(calls[p])}
CountOp(p, op) == Cardinality({i \in 1..Len(calls[p]) : calls[p][i].op = op})
IsPurge(c) == c.op = "purge"
PurgeCalls(p) == SelectSeq(calls[p], IsPurge)
PurgedHosts(p) == [i \in 1..Len(PurgeCalls(p)) |-> PurgeCalls(p)[i].target]
\* the create or patch of the workload returned without raising
UpsertSucceeded(p) == action[p] # ""
BestEffortOps == {"get_mapping", "create_mapping", "purge", "sleep", "warm_up"}
HasCustomDomain(p) == req[p].custom_domain # NoDomain
SubKey(r) == <<r.namespace, Subdomain(r.name)>>
CustomKey(r) == <<r.namespace, r.custom_domain>>

----------------------------------------------------------------------------
\* C1: a deploy whose existence check and create/patch succeeded ends with
\* status success, the action decided at the upsert and the primary URL,
\* whichever of the mapping, purge and warm-up steps failed.
C1_FailureIsolation ==
    \A p \in Procs :
        (Done(p) /\ IsDeploy(p) /\ UpsertSucceeded(p)) =>
            /\ outcome[p].status = "success"
            /\ outcome[p].action = action[p]
            /\ outcome[p].action \in {"created", "updated"}
            /\ outcome[p].url = "https://" \o req[p].name \o "." \o DOMAIN_NAME

\* a deploy answered after the mapping, both purges and the warm-up all failed
C1_Witness ==
    \E p \in Procs :
        /\ Done(p) /\ IsDeploy(p) /\ UpsertSucceeded(p)
        /\ failed[p] = {"mapping", "purge_custom", "purge_sub", "warm_up"}

\* C2: when the existence check raises (any status but 404, which means absent)
\* or the create/patch raises, the deploy ends in failure with the status code
\* of that ApiException, and no mapping call, purge, wait or warm-up was issued.
C2_FatalUpsert ==
    \A p \in Procs :
        (Done(p) /\ IsDeploy(p) /\ ~UpsertSucceeded(p)) =>
            /\ outcome[p].status = "failure"
            /\ outcome[p].cause.kind = "api" => outcome[p].code = outcome[p].cause.status
            /\ Ops(p) \cap BestEffortOps = {}
            /\ Ops(p) \subseteq {"get_service", "create_service", "patch_service"}

\* a deploy that failed at the create/patch with the control plane's 403
C2_Witness ==
    \E p \in Procs :
        /\ Done(p) /\ IsDeploy(p) /\ ~UpsertSucceeded(p)
        /\ Ops(p) \cap {"create_service", "patch_service"} # {}
        /\ outcome[p].cause.kind = "api" /\ outcome[p].code = 403

\* C3: a successful deploy answers "created" exactly when its existence check
\* found no resource and it issued a create, "updated" exactly when the check
\* found one and it issued a patch; it answers nothing else.
C3_ActionMatchesUpsert ==
    \A p \in Procs :
        (Done(p) /\ IsDeploy(p) /\ outcome[p].status = "success") =>
            /\ outcome[p].action \in {"created", "updated"}
            /\ outcome[p].action = "created" <=>
                   (existing[p] = NoDoc /\ Ops(p) \cap {"create_service", "patch_service"}
                                               = {"create_service"})
            /\ outcome[p].action = "updated" <=>
                   (existing[p] \notin {NoDoc, Unset}
                    /\ Ops(p) \cap {"create_service", "patch_service"} = {"patch_service"})

\* both actions have been answered: an update of a workload created before
C3_Witness ==
    \E p \in Procs :
        /\ Done(p) /\ IsDeploy(p) /\ outcome[p].status = "success"
        /\ outcome[p].action = "updated"
        /\ prev.outcome.status = "success" /\ prev.outcome.action = "created"

\* C4: when a deploy answered "created" and the next request that gets as far
\* as a write is the same deploy again (requests are handled one after the
\* other, so nothing wrote in between), the second answers "updated" with the
\* same URL and leaves the workload document the first one left.
C4_IdempotentUpsert ==
    \A p \in Procs :
        (/\ Done(p) /\ IsDeploy(p) /\ outcome[p].status = "success"
         /\ prev.req = req[p]
         /\ prev.outcome.status = "success" /\ prev.outcome.action = "created") =>
            /\ outcome[p].action = "updated"
            /\ outcome[p].url = prev.outcome.url
            /\ svc[Key(req[p])] = prev.doc
            /\ svc[Key(req[p])] = create_knative_service_spec(req[p].name, req[p].image,
                                                              req[p].envs)

\* the second of two identical deploys has been answered
C4_Witness ==
    \E p \in Procs :
        /\ Done(p) /\ IsDeploy(p) /\ outcome[p].status = "success"
        /\ prev.req = req[p] /\ req[p].envs # << >>
        /\ prev.outcome.status = "success" /\ prev.outcome.action = "created"

\* C5: a delete whose existence check finds no workload resource answers 404
\* and issues no delete call; and a delete that follows a successful delete of
\* the same name (its existence check answering) is answered 404.
C5_ExistenceGatedDelete ==
    \A p \in Procs :
        /\ (Done(p) /\ IsDelete(p) /\ existing[p] = NoDoc) =>
               /\ outcome[p].status = "failure" /\ outcome[p].code = 404
               /\ "delete_service" \notin Ops(p)
        /\ (/\ Done(p) /\ IsDelete(p) /\ existing[p] # Unset
            /\ prev.req = req[p] /\ prev.outcome.status = "deleted") =>
               /\ existing[p] = NoDoc
               /\ outcome[p].status = "failure" /\ outcome[p].code = 404

\* a delete answered right after a successful delete of the same name
C5_Witness ==
    \E p \in Procs :
        /\ Done(p) /\ IsDelete(p) /\ existing[p] # Unset
        /\ prev.req = req[p] /\ prev.outcome.status = "deleted"

\* C6 (as claimed): after a successful delete neither the workload nor a
\* DomainMapping for its primary subdomain {name}.{domain} exists.
C6_DeleteRemovesSubdomainMapping ==
    \A p \in Procs :
        (Done(p) /\ IsDelete(p) /\ outcome[p].status = "deleted") =>
            /\ svc[Key(req[p])] = NoDoc
            /\ dm[SubKey(req[p])] = NoMapping

\* C7: no step of delete_app changes a DomainMapping: every mapping that
\* exists before the step exists after it with the same target.
C7_DeleteLeavesMappings ==
    [][\A p \in Procs :
          (pc[p] \in {"x_get", "x_delete"} /\ pc'[p] # pc[p]) => dm' = dm]_vars

\* a delete has succeeded and a custom-domain mapping to the deleted service is
\* still there
C7_Witness ==
    \E p \in Procs :
        /\ Done(p) /\ IsDelete(p) /\ outcome[p].status = "deleted"
        /\ dm[<<req[p].namespace, "shop.example.com">>] = req[p].name

\* C8 (as claimed): after a successful deploy in which no call failed, a
\* DomainMapping to the workload exists for the primary subdomain and, when a
\* custom domain was given, another for the custom domain.
C8_BothHostnamesMapped ==
    \A p \in Procs :
        (Done(p) /\ IsDeploy(p) /\ outcome[p].status = "success" /\ failed[p] = {}) =>
            /\ dm[SubKey(req[p])] = req[p].name
            /\ HasCustomDomain(p) => dm[CustomKey(req[p])] # NoMapping

\* C9: a deploy whose upsert succeeded has issued, in this order, one purge
\* keyed by the custom domain when one is given and one purge keyed by the
\* primary subdomain, and no other purge.
C9_OnePurgePerHostname ==
    \A p \in Procs :
        (Done(p) /\ IsDeploy(p) /\ UpsertSucceeded(p)) =>
            PurgedHosts(p) = IF HasCustomDomain(p)
                             THEN <<req[p].custom_domain, Subdomain(req[p].name)>>
                             ELSE <<Subdomain(req[p].name)>>

\* a deploy with a custom domain has been answered, with its two purges issued
C9_Witness ==
    \E p \in Procs :
        /\ Done(p) /\ IsDeploy(p) /\ UpsertSucceeded(p)
        /\ req[p].custom_domain = "shop.example.com"
        /\ Len(PurgeCalls(p)) = 2

\* C10: when the lookup of the custom domain's DomainMapping finds one, the
\* deploy issues no create on it and its target stays what the lookup saw, also
\* when that is another service; when the lookup finds none, exactly one create
\* is issued, for that hostname and targeting the deployed service.
C10_MappingCreateIfAbsent ==
    \A p \in Procs :
        (Done(p) /\ IsDeploy(p)) =>
            /\ mexisting[p] \notin {NotLookedUp, NoMapping} =>
                   /\ "create_mapping" \notin Ops(p)
                   /\ dm[CustomKey(req[p])] = mexisting[p]
            /\ mexisting[p] = NoMapping =>
                   /\ CountOp(p, "create_mapping") = 1
                   /\ \A i \in 1..Len(calls[p]) :
                          calls[p][i].op = "create_mapping" =>
                              calls[p][i].target = <<req[p].custom_domain, req[p].name>>
                   /\ "mapping" \notin failed[p] => dm[CustomKey(req[p])] = req[p].name
            /\ mexisting[p] = NotLookedUp => "create_mapping" \notin Ops(p)

\* a deploy found its custom domain mapped to another service and left it so
C10_Witness ==
    \E p \in Procs :
        /\ Done(p) /\ IsDeploy(p) /\ outcome[p].status = "success"
        /\ mexisting[p] \notin {NotLookedUp, NoMapping, req[p].name}
        /\ dm[CustomKey(req[p])] = mexisting[p]

IndicesOf(p, ops) == {i \in 1..Len(calls[p]) : calls[p][i].op \in ops}
ExpectedPurges(p) == IF HasCustomDomain(p) THEN 2 ELSE 1

\* C11: in a deploy, every purge is issued after the create/patch of the
\* workload has returned successfully, the wait comes after every purge of the
\* request, and the warm-up GET to the primary URL is issued only after all
\* purges of the request and the wait.
C11_PipelineOrder ==
    \A p \in Procs :
        IsDeploy(p) =>
            /\ \A i \in IndicesOf(p, {"purge"}) :
                   /\ UpsertSucceeded(p)
                   /\ \E j \in IndicesOf(p, {"create_service", "patch_service"}) : j < i
            /\ \A k \in IndicesOf(p, {"sleep"}) :
                   /\ Cardinality(IndicesOf(p, {"purge"})) = ExpectedPurges(p)
                   /\ \A i \in IndicesOf(p, {"purge"}) : i < k
            /\ \A w \in IndicesOf(p, {"warm_up"}) :
                   /\ calls[p][w].target = CleanUrl(req[p].name)
                   /\ Cardinality(IndicesOf(p, {"purge"})) = ExpectedPurges(p)
                   /\ \A i \in IndicesOf(p, {"purge"}) : i < w
                   /\ \E k \in IndicesOf(p, {"sleep"}) : k < w
            /\ (Done(p) /\ outcome[p].status = "success") =>
                   Cardinality(IndicesOf(p, {"warm_up"})) = 1

\* a successful deploy with a custom domain: two purges, the wait, the warm-up
C11_Witness ==
    \E p \in Procs :
        /\ Done(p) /\ IsDeploy(p) /\ outcome[p].status = "success"
        /\ Cardinality(IndicesOf(p, {"purge"})) = 2
        /\ IndicesOf(p, {"warm_up"}) # {}

\* C12 (as claimed): a deploy that answers success has, in this order, upserted
\* the workload, reconciled the DomainMapping of its primary subdomain,
\* launched the autoscaler correction, purged, waited and warmed up.
C12_NoStateSkipped ==
    \A p \in Procs :
        (Done(p) /\ IsDeploy(p) /\ outcome[p].status = "success") =>
            /\ \E u \in IndicesOf(p, {"create_service", "patch_service"}),
                  d \in IndicesOf(p, {"get_mapping"}),
                  c \in IndicesOf(p, {"purge"}),
                  k \in IndicesOf(p, {"sleep"}),
                  w \in IndicesOf(p, {"warm_up"}) :
                   /\ calls[p][d].target = Subdomain(req[p].name)
                   /\ u < d /\ d < c /\ c < k /\ k < w
            /\ cpc # "off"

\* the handler is past the launch of the correction and has not answered yet
AfterLaunch(p) ==
    /\ IsDeploy(p) /\ cpc # "off"
    /\ pc[p] \in {"d_purge_custom", "d_purge_sub", "d_sleep", "d_warm_up", "d_return"}

HandlerStep(p) ==
    PurgeStep(p) \/ DeploySleep(p) \/ DeployWarmUp(p) \/ DeployReturn(p)

\* C13: the correction loop never makes more than 30 polling attempts; it ends
\* exhausted only at the ceiling, without a patch; and a deploy whose upsert
\* succeeded answers success whatever the loop did, also when it was exhausted.
C13_CorrectionGivesUp ==
    /\ attempts <= MAX_ATTEMPTS
    /\ cpc = "exhausted" => (attempts = MAX_ATTEMPTS /\ childMin # "0")
    /\ \A p \in Procs :
         (Done(p) /\ IsDeploy(p) /\ UpsertSucceeded(p)) =>
             (cpc # "off" /\ outcome[p].status = "success")

\* the revision never appeared, the loop is exhausted, the deploy answered
C13_Witness ==
    \E p \in Procs :
        /\ Done(p) /\ IsDeploy(p) /\ outcome[p].status = "success"
        /\ cpc = "exhausted" /\ revision = NoRevision

\* C14: once the loop has seen the revision and patched it, the revision's
\* minimum-replica annotation is "0" and stays so, and no further polling
\* attempt or patch is made.
C14_CorrectionConverges ==
    [][cpc = "patched" =>
          /\ revision # NoRevision /\ childMin = "0"
          /\ cpc' = "patched" /\ attempts' = attempts /\ childMin' = "0"]_vars

\* the loop patched the revision before the ceiling
C14_Witness == cpc = "patched" /\ childMin = "0" /\ attempts > 1 /\ attempts < MAX_ATTEMPTS

\* C15: from the launch on, the handler's next step never waits for the loop:
\* whatever the loop's state, the handler can go on to its answer.
C15_CorrectionDetached ==
    \A p \in Procs : AfterLaunch(p) => ENABLED HandlerStep(p)

\* the deploy has answered while the loop is still polling
C15_Witness ==
    \E p \in Procs :
        /\ Done(p) /\ IsDeploy(p) /\ outcome[p].status = "success"
        /\ cpc = "polling" /\ attempts < MAX_ATTEMPTS

IsLogs(p) == req[p].op = "logs"
Listed(p) == pod[p] # NoPod

\* C16: get_logs for a name whose Service lookup found nothing is answered
\* with a 404.
C16_LogsNotFoundIs404 ==
    \A p \in Procs :
        (Done(p) /\ IsLogs(p) /\ existing[p] = NoDoc) => outcome[p].code = 404

\* C17: get_logs for an existing Service whose pod listing is empty returns
\* the normal result with empty logs and the message, and never reads a log.
C17_NoPodsIsNormal ==
    \A p \in Procs :
        (Done(p) /\ IsLogs(p) /\ Listed(p) /\ pod[p].items = << >>) =>
            /\ outcome[p] = NoPodsResult(req[p])
            /\ outcome[p].logs = "" /\ outcome[p].code = 200
            /\ CountOp(p, "read_pod_log") = 0

\* an existing service was listed and had no pod
C17_Witness ==
    \E p \in Procs :
        /\ Done(p) /\ IsLogs(p) /\ Listed(p) /\ pod[p].items = << >>
        /\ existing[p] # NoDoc /\ existing[p] # Unset

\* C18: when the latest pod is neither Running nor Succeeded, get_logs still
\* reads its log once, and when that read fails the answer is the normal
\* result with pod name, phase, empty logs and a message: no error.
C18_NotReadyFallsBack ==
    \A p \in Procs :
        (Done(p) /\ IsLogs(p) /\ Listed(p) /\ pod[p].items # << >>
                 /\ ~Readable(LatestPod(pod[p].items))) =>
            /\ CountOp(p, "read_pod_log") = 1
            /\ "read_pod_log" \in failed[p] =>
                   outcome[p] = NotReadyResult(req[p], LatestPod(pod[p].items))

Built == build # NoBuild /\ build.result # NoDoc

\* C19: the env list of the built document is the user entries in their
\* insertion order, followed by exactly one more entry, SERVICE_URL with the
\* value https://{name}.{domain}, which is the last element.
C19_ServiceUrlAppendedLast ==
    Built =>
        LET env == build.result.env
            n == Len(build.envs)
        IN /\ Len(env) = n + 1
           /\ \A i \in 1..n :
                 env[i].name = build.envs[i][1] /\ env[i].value = build.envs[i][2]
           /\ env[n + 1].name = "SERVICE_URL"
           /\ env[n + 1].value = "https://" \o build.name \o "." \o DOMAIN_NAME

\* built from two user entries, one of them the user's own SERVICE_URL, first
C19_Witness ==
    /\ Built
    /\ Len(build.envs) = 2
    /\ build.envs[1][1] = "SERVICE_URL"
    /\ build.envs[2][1] = "FOO"

Desired(r) == create_knative_service_spec(r.name, r.image, r.envs)

\* two deploys of the same (namespace, name) with different images, both answered
RacedDeploys(p, q) ==
    /\ p # q /\ Done(p) /\ Done(q) /\ IsDeploy(p) /\ IsDeploy(q)
    /\ Key(req[p]) = Key(req[q])
    /\ req[p].image # req[q].image

\* C20: after two concurrent deploys of the same (namespace, name) with
\* different images, whatever the interleaving of their lookups and writes
\* (create/create, create/patch, patch/patch on a Service an earlier deploy
\* left), the Service document in the cluster is the desired document of the
\* write the control plane applied last: that of the racing request whose
\* write came last, or, when neither racing write was applied, what the
\* earlier requests left (nothing on an empty cluster).
C20_LastWriteWins ==
    \A p, q \in Procs :
        RacedDeploys(p, q) =>
            LET k == Key(req[p])
                last == lastWriter[k]
            IN /\ svc[k] = last.want
               /\ \A w \in {p, q} :
                     (UpsertSucceeded(w) /\ last.by = w) => svc[k] = Desired(req[w])
               /\ (UpsertSucceeded(p) \/ UpsertSucceeded(q)) =>
                     (last.by \in {p, q} /\ UpsertSucceeded(last.by))

\* the patch/patch race: an earlier deploy left the Service; both racing
\* deploys found it and both patches were applied; q looked the Service up
\* before p's patch (it still saw the earlier image, which p replaces) and
\* its own patch was applied after p's
C20_Witness ==
    \E p, q \in Procs :
        /\ RacedDeploys(p, q)
        /\ prev # NoPrev /\ Key(prev.req) = Key(req[p]) /\ prev.doc # NoDoc
        /\ action[p] = "updated" /\ action[q] = "updated"
        /\ req[p].image # prev.doc.image
        /\ existing[p] = prev.doc /\ existing[q] = prev.doc
        /\ lastWriter[Key(req[p])].by = q
        /\ svc[Key(req[p])] = Desired(req[q])
        /\ outcome[p].status = "success" /\ outcome[q].status = "success"

\* the create/create race: both lookups found nothing, one create was applied
\* and the other refused
C20_CreateRace ==
    \E p, q \in Procs :
        /\ RacedDeploys(p, q)
        /\ existing[p] = NoDoc /\ existing[q] = NoDoc
        /\ action[p] = "created" /\ outcome[q].code = 409
        /\ lastWriter[Key(req[p])].by = p

\* the upsert has returned and the handler has not been answered for yet
PastUpsert(p) == IsDeploy(p) /\ UpsertSucceeded(p)

\* C21: from the return of the create/patch on, wherever the request is cut
\* off (mapping, purges, wait, warm-up, answer), the Service in the cluster is
\* the complete desired document of the request; what is left undone is
\* best-effort only.
C21_NeverHalfWritten ==
    \A p \in Procs :
        PastUpsert(p) =>
            /\ svc[Key(req[p])] = Desired(req[p])
            /\ pc[p] \in {"d_map_get", "d_map_create", "d_purge_custom", "d_purge_sub",
                          "d_sleep", "d_warm_up", "d_return", "done"}

\* a patch of an existing Service has returned, the mapping lookup failed, and
\* the request stands before its purges
C21_Witness ==
    \E p \in Procs :
        /\ PastUpsert(p) /\ action[p] = "updated"
        /\ existing[p].image # req[p].image
        /\ pc[p] = "d_purge_custom" /\ "mapping" \in failed[p]

\* C22: after a successful deploy onto an existing Service, the stored image,
\* env list, labels and autoscaling annotations are exactly those of the
\* desired document: nothing that only the previous document had survives.
C22_OverwriteNotMerge ==
    \A p \in Procs :
        (Done(p) /\ IsDeploy(p) /\ outcome[p].status = "success" /\ action[p] = "updated") =>
            LET doc == svc[Key(req[p])]
                want == Desired(req[p])
            IN /\ doc.image = want.image
               /\ doc.env = want.env
               /\ doc.labels = want.labels
               /\ doc.annotations = want.annotations

\* positions of deploy_app after the upsert: mapping, purges, wait, warm-up, return
TailPcs == {"d_map_get", "d_map_create", "d_purge_custom", "d_purge_sub",
            "d_sleep", "d_warm_up", "d_return"}

\* C23: a step of the mapping, purge, wait or warm-up part, and the return,
\* leave the action decided at the upsert as it is, write nothing to the
\* Service (no create, patch or delete call, no change of the document),
\* whether the step fails or not; and the response carries that action.
C23_ActionThreadsThrough ==
    [][\A p \in Procs :
          (IsDeploy(p) /\ pc[p] \in TailPcs) =>
              /\ action'[p] = action[p]
              /\ svc' = svc
              /\ Len(calls'[p]) > Len(calls[p]) =>
                     calls'[p][Len(calls'[p])].op \in BestEffortOps
              /\ pc'[p] = "done" =>
                     (outcome'[p].status = "success" /\ outcome'[p].action = action[p])]_vars

\* a created Service, every best-effort step of the request failed, answered
C23_Witness ==
    \E p \in Procs :
        /\ Done(p) /\ IsDeploy(p) /\ HasCustomDomain(p)
        /\ outcome[p].status = "success" /\ outcome[p].action = "created"
        /\ {"mapping", "purge_custom", "purge_sub", "warm_up"} \subseteq failed[p]

MappingKeys == Namespaces \X Hosts

\* C24: a hostname has at most one DomainMapping: the mapping is made by the
\* first create the control plane accepts, targets the service of that
\* request, and no later deploy changes or replaces it; the deploy whose
\* create is refused (conflict) or fails is answered with success all the same.
C24_OneMappingPerHostname ==
    /\ [][\A k \in MappingKeys :
             /\ dm[k] # NoMapping => dm'[k] = dm[k]
             /\ (dm[k] = NoMapping /\ dm'[k] # NoMapping) =>
                    \E p \in Procs :
                        /\ pc[p] = "d_map_create"
                        /\ <<req[p].namespace, req[p].custom_domain>> = k
                        /\ dm'[k] = req[p].name]_vars
    /\ [](\A p \in Procs :
             (Done(p) /\ IsDeploy(p) /\ UpsertSucceeded(p)) => outcome[p].status = "success")

\* two deploys of different services named the same custom domain, both saw no
\* mapping and both tried to create it: one create was accepted, both succeeded
C24_Witness ==
    \E p, q \in Procs :
        /\ p # q /\ Done(p) /\ Done(q)
        /\ req[p].custom_domain = req[q].custom_domain
        /\ req[p].name # req[q].name
        /\ mexisting[p] = NoMapping /\ mexisting[q] = NoMapping
        /\ CountOp(p, "create_mapping") = 1 /\ CountOp(q, "create_mapping") = 1
        /\ dm[<<req[p].namespace, req[p].custom_domain>>] = req[p].name
        /\ "mapping" \in failed[q] /\ "mapping" \notin failed[p]
        /\ outcome[p].status = "success" /\ outcome[q].status = "success"

\* the request was failed by a fault of the control plane itself (403, 503, a
\* broken connection), not by what the cluster held
FailedByFault(p) == outcome[p].status = "failure" /\ outcome[p].cause \in ApiFaults

\* C25: two concurrent deploys of the same (namespace, name) on a cluster that
\* has no such Service yet both answer success, unless the control plane
\* itself fails: neither is failed by the other's write.
C25_ConcurrentDeploysBothSucceed ==
    \A p, q \in Procs :
        (/\ p # q /\ Done(p) /\ Done(q) /\ IsDeploy(p) /\ IsDeploy(q)
         /\ Key(req[p]) = Key(req[q])
         /\ ~FailedByFault(p) /\ ~FailedByFault(q)) =>
            (outcome[p].status = "success" /\ outcome[q].status = "success")

\* two deletes of the same Service, both answered: the Service was there (at
\* least one of the two found it), and no fault of the control plane
RacedDeletes(p, q) ==
    /\ p # q /\ Done(p) /\ Done(q) /\ IsDelete(p) /\ IsDelete(q)
    /\ Key(req[p]) = Key(req[q])
    /\ existing[p] # NoDoc \/ existing[q] # NoDoc
    /\ ~FailedByFault(p) /\ ~FailedByFault(q)

\* C26: of two concurrent deletes of the same existing Service, exactly one
\* is answered "deleted" and the other with a 404, whether the loser looked
\* the Service up before or after the winner's delete call.
C26_ConcurrentDeletes ==
    \A p, q \in Procs :
        RacedDeletes(p, q) =>
            \/ outcome[p].status = "deleted" /\ outcome[q].code = 404
            \/ outcome[q].status = "deleted" /\ outcome[p].code = 404

\* both existence checks found the Service; the loser's delete call came late
C26_Witness ==
    \E p, q \in Procs :
        /\ RacedDeletes(p, q)
        /\ existing[p] # NoDoc /\ existing[q] # NoDoc
        /\ outcome[p].status = "deleted"
        /\ CountOp(q, "delete_service") = 1 /\ outcome[q].code = 404

\* the deploy found the Service, and the Service is gone when it comes to patch
PatchOfDeleted(p) ==
    /\ IsDeploy(p) /\ pc[p] = "d_upsert"
    /\ existing[p] # NoDoc /\ svc[Key(req[p])] = NoDoc

\* C27: a deploy whose patch comes after a delete of the same name fails with
\* the control plane's 404 (or with a fault of the control plane), creates
\* nothing, and issues no purge, wait or warm-up; and a deploy gets the action
\* "updated" only by a patch that was applied to a Service that is there.
C27_DeployRacingDelete ==
    /\ [][\A p \in Procs :
             /\ (PatchOfDeleted(p) /\ pc'[p] # pc[p]) =>
                    /\ pc'[p] = "done"
                    /\ outcome'[p].status = "failure"
                    /\ outcome'[p].code = 404 \/ outcome'[p].cause \in ApiFaults
                    /\ svc'[Key(req[p])] = NoDoc
             /\ (IsDeploy(p) /\ action[p] = "" /\ action'[p] = "updated") =>
                    /\ svc[Key(req[p])] # NoDoc
                    /\ svc'[Key(req[p])] = MergePatch(svc[Key(req[p])], Desired(req[p]))]_vars
    /\ [](\A p \in Procs :
             (Done(p) /\ IsDeploy(p) /\ outcome[p].status = "failure") =>
                 Ops(p) \cap {"purge", "sleep", "warm_up"} = {})

\* the delete was applied between the deploy's lookup and its patch
C27_Witness ==
    \E p, q \in Procs :
        /\ Done(p) /\ IsDeploy(p) /\ existing[p] # NoDoc /\ existing[p] # Unset
        /\ outcome[p].code = 404 /\ outcome[p].cause = [kind |-> "api", status |-> 404]
        /\ svc[Key(req[p])] = NoDoc
        /\ Ops(p) = {"get_service", "patch_service"}
        /\ Done(q) /\ IsDelete(q) /\ outcome[q].status = "deleted"
        /\ Key(req[q]) = Key(req[p])

\* C28: the env list of the built document has exactly one entry named
\* SERVICE_URL, with the platform's URL as its value, and no name twice, also
\* when the user's environment has a SERVICE_URL key of its own.
C28_OneServiceUrlEntry ==
    Built =>
        LET env == build.result.env
            urls == {i \in 1..Len(env) : env[i].name = "SERVICE_URL"}
        IN /\ Cardinality(urls) = 1
           /\ \A i \in urls : env[i].value = CleanUrl(build.name)
           /\ \A i, j \in 1..Len(env) : env[i].name = env[j].name => i = j
====
